---- MODULE Spec2Model ----
(***************************************************************************)
(* Model of the document question-answering service (backend/server.js).   *)
(*                                                                         *)
(* Strings are sequences of symbols.  A symbol is one character, except    *)
(* for the two literals of the citation marker, "[Document: " and          *)
(* ", Page: ", which are single symbols: no other symbol of the alphabet   *)
(* contains "[" or ",", so a string over the alphabet has exactly one      *)
(* reading and the regular expression of parseGeminiResponse matches a     *)
(* string of symbols exactly where it matches the string of characters.    *)
(*                                                                         *)
(* A document record keeps id, filename and pages; upload_time and size_mb *)
(* are written once by the upload and read by no handler logic.            *)
(*                                                                         *)
(* The second part models the browser client (the React component App):    *)
(* its state hooks, its handlers and the requests it has in flight.        *)
(***************************************************************************)
EXTENDS Integers, Sequences, FiniteSets, Bags, TLC

VARIABLES documentsStore, documentTexts, inflight, last, gone

\* What an observer of the responses knows of the list of documents: the
\* body of the last GET /documents, while no upload and no delete has
\* succeeded since.
VARIABLES listed

\* The client: the state hooks of App, the requests it has sent and not yet
\* seen completed, and two counters of the /ask requests of the session.
VARIABLES documents, chatHistory, questionInput, loading, selectedPage, pageText,
          activeTab, requests, asked, answered

serverVars == <<documentsStore, documentTexts, inflight, last, gone, listed>>

clientVars == <<documents, chatHistory, questionInput, loading, selectedPage,
                pageText, activeTab, requests, asked, answered>>

vars == <<serverVars, clientVars>>

(***************************************************************************)
(* Alphabet                                                                *)
(***************************************************************************)
LDOC == "[Document: "
PAGE == ", Page: "
RBR == "]"
NL == "\n"
FF == "\f"
DASH == "-"

Digits == <<"0", "1", "2", "3", "4", "5", "6", "7", "8", "9">>

IsDigit(c) == \E i \in 1..10 : Digits[i] = c

DigitValue(c) == (CHOOSE i \in 1..10 : Digits[i] = c) - 1

\* ECMAScript white space and line terminators among the alphabet's symbols.
IsSpace(c) == c \in {" ", NL, FF}

\* [^,] of the source pattern: a symbol that holds no comma.
NotComma(c) == c # PAGE

\* parseInt's NaN: no page number and no index.
NaN == -1

\* document_id: null
Null == "null"

(***************************************************************************)
(* String helpers (String.prototype.split, trim, parseInt, String(n))      *)
(***************************************************************************)
RECURSIVE Split(_, _)
Split(s, c) ==
    IF \E i \in 1..Len(s) : s[i] = c
    THEN LET i == CHOOSE k \in 1..Len(s) :
                      s[k] = c /\ \A j \in 1..(k - 1) : s[j] # c
         IN <<SubSeq(s, 1, i - 1)>> \o Split(SubSeq(s, i + 1, Len(s)), c)
    ELSE <<s>>

RECURSIVE TrimStart(_)
TrimStart(s) ==
    IF s # <<>> /\ IsSpace(Head(s)) THEN TrimStart(Tail(s)) ELSE s

RECURSIVE TrimEnd(_)
TrimEnd(s) ==
    IF s # <<>> /\ IsSpace(s[Len(s)])
    THEN TrimEnd(SubSeq(s, 1, Len(s) - 1))
    ELSE s

Trim(s) == TrimEnd(TrimStart(s))

\* The longest prefix of s made of decimal digits.
RECURSIVE DigitPrefix(_)
DigitPrefix(s) ==
    IF s # <<>> /\ IsDigit(Head(s))
    THEN <<Head(s)>> \o DigitPrefix(Tail(s))
    ELSE <<>>

RECURSIVE DigitsValue(_)
DigitsValue(ds) ==
    IF ds = <<>> THEN 0
    ELSE 10 * DigitsValue(SubSeq(ds, 1, Len(ds) - 1)) + DigitValue(ds[Len(ds)])

\* parseInt(s): leading white space skipped, then the digits; NaN without any.
ParseInt(s) ==
    LET ds == DigitPrefix(TrimStart(s))
    IN IF ds = <<>> THEN NaN ELSE DigitsValue(ds)

\* `${n}` for a number n >= 0.
RECURSIVE NumberToString(_)
NumberToString(n) ==
    IF n < 10 THEN <<Digits[n + 1]>>
    ELSE NumberToString(n \div 10) \o <<Digits[(n % 10) + 1]>>

\* Array.prototype.join
RECURSIVE Join(_, _)
Join(parts, sep) ==
    IF parts = <<>> THEN <<>>
    ELSE IF Len(parts) = 1 THEN parts[1]
    ELSE parts[1] \o sep \o Join(Tail(parts), sep)

(***************************************************************************)
(* Inputs                                                                  *)
(***************************************************************************)
\* The page limit of an upload.
MaxPages == 100

\* Requests that may be waiting for the external service at once.  The
\* waiting requests are a bag: they have no order.
MaxInflight == 1

\* Values `doc_${Date.now()}_${Math.random()...}` may take; a value may repeat.
Ids == {"d1", "d2"}

Filenames == {<<"a">>, <<"b">>}

\* req.file: absent, or an upload with its mimetype whose buffer pdf-parse
\* reads (parses), returning its text and page count, or rejects with an
\* exception.
PdfType == "application/pdf"

NoFile ==
    [present |-> FALSE, mimetype |-> "", originalname |-> <<>>,
     parses |-> FALSE, text |-> <<>>, numpages |-> 0]

Pdf(originalname, text, numpages) ==
    [present |-> TRUE, mimetype |-> PdfType, originalname |-> originalname,
     parses |-> TRUE, text |-> text, numpages |-> numpages]

Files ==
    { NoFile,
      [present |-> TRUE, mimetype |-> "text/plain", originalname |-> <<"a">>,
       parses |-> FALSE, text |-> <<>>, numpages |-> 0],
      [present |-> TRUE, mimetype |-> PdfType, originalname |-> <<"a">>,
       parses |-> FALSE, text |-> <<>>, numpages |-> 0],
      Pdf(<<"a">>, <<>>, 1),
      Pdf(<<"a">>, <<"a", FF, " ", "b", " ">>, 2),
      Pdf(<<"b">>, <<FF, "b">>, MaxPages),
      Pdf(<<"b">>, <<" ", "a">>, MaxPages + 1) }

\* :pageNumber route parameters
PageParams == { <<"1">>, <<"0", "2">>, <<"x">> }

\* req.body.question: <<>> stands for a question that is absent or empty.
Questions == { <<>>, <<"q">> }

\* req.body.document_ids: omitted (undefined or null), or the list given.
Omitted == [given |-> FALSE, ids |-> <<>>]

IdLists ==
    { <<>>, <<"d1">>, <<"d2">>, <<"d1", "d2">>, <<"d2", "d1">>, <<"d1", "d1">> }

DocumentIds == {Omitted} \cup [given : {TRUE}, ids : IdLists]

\* Pieces of a generated text, and the texts made of at most n of them.
Open(f) == <<LDOC>> \o f \o <<PAGE>>

Close(d) == <<d, RBR>>

Marker(f, d) == Open(f) \o Close(d)

RECURSIVE Concat(_)
Concat(parts) == IF parts = <<>> THEN <<>> ELSE Head(parts) \o Concat(Tail(parts))

TextsOf(pieces, n) ==
    UNION { { Concat(ps) : ps \in [1..k -> pieces] } : k \in 0..n }

\* The external call fails (ok = FALSE: generateContent throws) or returns text.
Replies ==
    { [ok |-> FALSE, text |-> <<>>],
      [ok |-> TRUE, text |-> <<"x">>],
      [ok |-> TRUE, text |-> Marker(<<"a">>, "1")],
      [ok |-> TRUE,
       text |-> Marker(<<"b">>, "2") \o <<"x">> \o Marker(<<"a">>, "1")] }

\* Pieces of the replies in the runs of the answer parser alone.
MaxPieces == 3

ParsePieces ==
    { Marker(<<"a">>, "1"), Marker(<<"a">>, "2"), Marker(<<" ", "a">>, "1"),
      Marker(<<"b">>, "1"), Open(<<"a">>), Close("1"),
      <<"x">>, <<" ">>, <<"1">>, <<LDOC>> }

ParseReplies == [ok : {TRUE}, text : TextsOf(ParsePieces, MaxPieces)]

(***************************************************************************)
(* The two maps                                                            *)
(***************************************************************************)
\* documentsStore is a Map: a sequence of records in insertion order.
StoreKeys == { documentsStore[i].id : i \in 1..Len(documentsStore) }

StoreHas(id) == id \in StoreKeys

StoreGet(id) ==
    documentsStore[CHOOSE i \in 1..Len(documentsStore) : documentsStore[i].id = id]

\* Map.prototype.set: an existing key keeps its place.
StoreSet(store, doc) ==
    IF \E i \in 1..Len(store) : store[i].id = doc.id
    THEN [i \in 1..Len(store) |-> IF store[i].id = doc.id THEN doc ELSE store[i]]
    ELSE Append(store, doc)

StoreDelete(store, id) == SelectSeq(store, LAMBDA d : d.id # id)

\* documentTexts is never iterated: a function from its keys.
TextsKeys == DOMAIN documentTexts

TextsSet(texts, id, pages) ==
    [k \in (DOMAIN texts) \cup {id} |-> IF k = id THEN pages ELSE texts[k]]

TextsDelete(texts, id) == [k \in (DOMAIN texts) \ {id} |-> texts[k]]

(***************************************************************************)
(* extractPagesFromPDF                                                     *)
(***************************************************************************)
\* data: pdf-parse's result, its text and numpages.
extractPagesFromPDF(data) ==
    LET pageTexts == Split(data.text, FF)
        kept == { i \in 1..Len(pageTexts) : Trim(pageTexts[i]) # <<>> }
        pages == IF kept = {}
                 THEN [n \in {1} |-> data.text]
                 ELSE [n \in { i : i \in kept } |-> Trim(pageTexts[n])]
    IN [pages |-> pages, totalPages |-> data.numpages]

(***************************************************************************)
(* Responses                                                               *)
(***************************************************************************)
NoBody == <<>>

Response(op, status, req, body) ==
    [op |-> op, status |-> status, req |-> req, body |-> body]

\* A client request in flight.  An /ask carries what the closure of
\* askQuestion holds: the serial number of the question and the chatHistory
\* of the render in which the handler was invoked.
Request(kind, n, history) == [kind |-> kind, question |-> n, chatHistory |-> history]

\* App after its first render: every hook at its initial value and the
\* fetchDocuments of the mount effect in flight.
Mounted ==
    /\ documents = 0
    /\ chatHistory = <<>>
    /\ questionInput = FALSE
    /\ loading = FALSE
    /\ selectedPage = FALSE
    /\ pageText = FALSE
    /\ activeTab = "chat"
    /\ requests = SetToBag({Request("documents", 0, <<>>)})
    /\ asked = 0
    /\ answered = 0

\* calls is 0 when no list has been returned since the last successful
\* upload or delete, 1 after a list, 2 once another read has been answered
\* after that list, 3 when a list has been returned again after such a read.
NotListed == [calls |-> 0, documents |-> <<>>]

Reads == {"list", "page", "ask", "answer", "translate"}

Observe ==
    listed' =
        IF last'.op \in {"upload", "delete"} /\ last'.status = 200 THEN NotListed
        ELSE IF last'.op = "list"
             THEN [calls |-> CASE listed.calls = 0 -> 1
                               [] listed.calls = 2 -> 3
                               [] OTHER -> listed.calls,
                   documents |-> last'.body]
        ELSE IF last'.op \in Reads /\ listed.calls = 1
             THEN [listed EXCEPT !.calls = 2]
        ELSE listed

Init ==
    /\ documentsStore = <<>>
    /\ documentTexts = <<>>
    /\ inflight = EmptyBag
    /\ gone = {}
    /\ last = Response("none", 0, NoBody, NoBody)
    /\ listed = NotListed
    /\ Mounted

(***************************************************************************)
(* POST /upload.  The handler awaits the extraction before it touches the  *)
(* maps and touches nothing before it: the step is the code after the      *)
(* await.                                                                  *)
(***************************************************************************)
\* Faulty variant: the limit as the error message words it ("less than 100").
TooManyPagesAtLimit(pdfData) == pdfData.totalPages >= MaxPages

\* if (pdfData.totalPages > 100)
TooManyPages(pdfData) == pdfData.totalPages > MaxPages

Upload(file) ==
    IF file.present /\ file.mimetype # PdfType
    THEN \* fileFilter fails: the error-handling middleware answers
         /\ last' = Response("upload", 500, file, NoBody)
         /\ UNCHANGED <<documentsStore, documentTexts, inflight, gone>>
    ELSE IF ~file.present
    THEN /\ last' = Response("upload", 400, file, NoBody)
         /\ UNCHANGED <<documentsStore, documentTexts, inflight, gone>>
    ELSE IF ~file.parses
    THEN /\ last' = Response("upload", 500, file, NoBody)
         /\ UNCHANGED <<documentsStore, documentTexts, inflight, gone>>
    ELSE LET pdfData == extractPagesFromPDF(file)
         IN IF TooManyPages(pdfData)
            THEN /\ last' = Response("upload", 400, file, NoBody)
                 /\ UNCHANGED <<documentsStore, documentTexts, inflight, gone>>
            ELSE \E docId \in Ids :
                 /\ documentsStore' =
                        StoreSet(documentsStore,
                                 [id |-> docId,
                                  filename |-> file.originalname,
                                  pages |-> pdfData.totalPages])
                 /\ documentTexts' = TextsSet(documentTexts, docId, pdfData.pages)
                 /\ gone' = gone \ {docId}
                 /\ last' = Response("upload", 200, file,
                                     [document_id |-> docId,
                                      filename |-> file.originalname,
                                      pages |-> pdfData.totalPages])
                 /\ UNCHANGED inflight

(***************************************************************************)
(* GET /documents                                                          *)
(***************************************************************************)
ListDocuments ==
    /\ last' = Response("list", 200, NoBody, documentsStore)
    /\ UNCHANGED <<documentsStore, documentTexts, inflight, gone>>

(***************************************************************************)
(* DELETE /documents/:documentId                                           *)
(***************************************************************************)
\* Faulty variant: documentTexts.delete is forgotten.
DeleteDocumentKeepsTexts(documentId) ==
    IF ~StoreHas(documentId)
    THEN /\ last' = Response("delete", 404, documentId, NoBody)
         /\ UNCHANGED <<documentsStore, documentTexts, inflight, gone>>
    ELSE /\ documentsStore' = StoreDelete(documentsStore, documentId)
         /\ gone' = gone \cup {documentId}
         /\ last' = Response("delete", 200, documentId, NoBody)
         /\ UNCHANGED <<documentTexts, inflight>>

\* Faulty variant: documentsStore.delete is forgotten.
DeleteDocumentKeepsRecord(documentId) ==
    IF ~StoreHas(documentId)
    THEN /\ last' = Response("delete", 404, documentId, NoBody)
         /\ UNCHANGED <<documentsStore, documentTexts, inflight, gone>>
    ELSE /\ documentTexts' = TextsDelete(documentTexts, documentId)
         /\ gone' = gone \cup {documentId}
         /\ last' = Response("delete", 200, documentId, NoBody)
         /\ UNCHANGED <<documentsStore, inflight>>

DeleteDocument(documentId) ==
    IF ~StoreHas(documentId)
    THEN /\ last' = Response("delete", 404, documentId, NoBody)
         /\ UNCHANGED <<documentsStore, documentTexts, inflight, gone>>
    ELSE /\ documentsStore' = StoreDelete(documentsStore, documentId)
         /\ documentTexts' = TextsDelete(documentTexts, documentId)
         /\ gone' = gone \cup {documentId}
         /\ last' = Response("delete", 200, documentId, NoBody)
         /\ UNCHANGED inflight

(***************************************************************************)
(* GET /documents/:documentId/page/:pageNumber                             *)
(***************************************************************************)
\* pages[pageNum] as a condition: undefined (no such key) and "" are falsy.
PageTruthy(pages, pageNum) ==
    pageNum \in DOMAIN pages /\ pages[pageNum] # <<>>

\* Faulty variant: a read of a page that is not there drops the document.
GetPageEvictsMissing(documentId, pageNumber) ==
    LET pageNum == ParseInt(pageNumber)
        req == [documentId |-> documentId, pageNumber |-> pageNumber]
    IN IF StoreHas(documentId) /\ documentId \in TextsKeys
          /\ ~PageTruthy(documentTexts[documentId], pageNum)
       THEN /\ documentsStore' = StoreDelete(documentsStore, documentId)
            /\ documentTexts' = TextsDelete(documentTexts, documentId)
            /\ last' = Response("page", 404, req, NoBody)
            /\ UNCHANGED <<inflight, gone>>
       ELSE /\ last' = Response("page", IF StoreHas(documentId) THEN 200 ELSE 404,
                                req, NoBody)
            /\ UNCHANGED <<documentsStore, documentTexts, inflight, gone>>

GetPage(documentId, pageNumber) ==
    LET pageNum == ParseInt(pageNumber)
        req == [documentId |-> documentId, pageNumber |-> pageNumber]
    IN /\ UNCHANGED <<documentsStore, documentTexts, inflight, gone>>
       /\ IF ~StoreHas(documentId)
          THEN last' = Response("page", 404, req, NoBody)
          ELSE IF documentId \notin TextsKeys
          THEN \* pages is undefined: pages[pageNum] throws, the error
               \* middleware answers 500
               last' = Response("page", 500, req, NoBody)
          ELSE LET pages == documentTexts[documentId]
               IN IF ~PageTruthy(pages, pageNum)
                  THEN last' = Response("page", 404, req, NoBody)
                  ELSE last' = Response("page", 200, req,
                                        [document_id |-> documentId,
                                         filename |-> StoreGet(documentId).filename,
                                         page_number |-> pageNum,
                                         text |-> pages[pageNum]])

(***************************************************************************)
(* createContextFromDocuments                                              *)
(***************************************************************************)
\* Faulty variant: the entries in descending key order.
RECURSIVE EntriesDescending(_)
EntriesDescending(pages) ==
    IF DOMAIN pages = {} THEN <<>>
    ELSE LET k == CHOOSE n \in DOMAIN pages : \A m \in DOMAIN pages : n >= m
         IN <<[pageNum |-> k, text |-> pages[k]]>>
            \o EntriesDescending([n \in (DOMAIN pages) \ {k} |-> pages[n]])

\* Object.entries of an object with integer keys: ascending key order.
RECURSIVE Entries(_)
Entries(pages) ==
    IF DOMAIN pages = {} THEN <<>>
    ELSE LET k == CHOOSE n \in DOMAIN pages : \A m \in DOMAIN pages : n <= m
         IN <<[pageNum |-> k, text |-> pages[k]]>>
            \o Entries([n \in (DOMAIN pages) \ {k} |-> pages[n]])

\* `[Document: ${docInfo.filename}, Page: ${pageNum}]\n${text}\n`
ContextPart(filename, pageNum, text) ==
    <<LDOC>> \o filename \o <<PAGE>> \o NumberToString(pageNum)
             \o <<RBR, NL>> \o text \o <<NL>>

DocumentParts(docId) ==
    IF docId \in TextsKeys
    THEN LET docInfo == StoreGet(docId)
             entries == Entries(documentTexts[docId])
         IN [i \in 1..Len(entries) |->
                ContextPart(docInfo.filename, entries[i].pageNum, entries[i].text)]
    ELSE <<>>

RECURSIVE ContextParts(_)
ContextParts(docIds) ==
    IF docIds = <<>> THEN <<>>
    ELSE DocumentParts(Head(docIds)) \o ContextParts(Tail(docIds))

createContextFromDocuments(docIds) == Join(ContextParts(docIds), <<NL, NL>>)

(***************************************************************************)
(* parseGeminiResponse                                                     *)
(***************************************************************************)
\* [^,]+ from i: the end of the longest run of symbols without a comma
\* (i - 1 when there is none).
RECURSIVE NameEnd(_, _)
NameEnd(t, i) ==
    IF i <= Len(t) /\ NotComma(t[i]) THEN NameEnd(t, i + 1) ELSE i - 1

\* \d+ from i: the end of the longest run of digits (i - 1 when there is none).
RECURSIVE PageEnd(_, _)
PageEnd(t, i) ==
    IF i <= Len(t) /\ IsDigit(t[i]) THEN PageEnd(t, i + 1) ELSE i - 1

NoMatch == [ok |-> FALSE, start |-> 0, end |-> 0, name |-> <<>>, page |-> <<>>]

\* /\[Document: ([^,]+), Page: (\d+)\]/ anchored at i.  Both groups are
\* greedy and the symbol after each must end it, so no shorter run matches.
MatchAt(t, i) ==
    IF i > Len(t) \/ t[i] # LDOC THEN NoMatch
    ELSE LET nameEnd == NameEnd(t, i + 1)
         IN IF nameEnd < i + 1 \/ nameEnd + 1 > Len(t) \/ t[nameEnd + 1] # PAGE
            THEN NoMatch
            ELSE LET pageEnd == PageEnd(t, nameEnd + 2)
                 IN IF pageEnd < nameEnd + 2 \/ pageEnd + 1 > Len(t)
                       \/ t[pageEnd + 1] # RBR
                    THEN NoMatch
                    ELSE [ok |-> TRUE, start |-> i, end |-> pageEnd + 1,
                          name |-> SubSeq(t, i + 1, nameEnd),
                          page |-> SubSeq(t, nameEnd + 2, pageEnd)]

\* sourcePattern.exec from lastIndex: the leftmost match at or after it.
RECURSIVE Exec(_, _)
Exec(t, lastIndex) ==
    IF lastIndex > Len(t) THEN NoMatch
    ELSE IF MatchAt(t, lastIndex).ok THEN MatchAt(t, lastIndex)
    ELSE Exec(t, lastIndex + 1)

\* Every match of the global pattern, in the order the loop meets them.
RECURSIVE Matches(_, _)
Matches(t, lastIndex) ==
    LET match == Exec(t, lastIndex)
    IN IF match.ok THEN <<match>> \o Matches(t, match.end + 1) ELSE <<>>

\* for (const [id, doc] of documentsStore.entries()) ... break
\* Faulty variant: the selected set is not consulted.
FindDocIdAnyDocument(filename, docIds) ==
    LET hits == { i \in 1..Len(documentsStore) : documentsStore[i].filename = filename }
    IN IF hits = {} THEN Null
       ELSE documentsStore[CHOOSE i \in hits : \A j \in hits : i <= j].id

FindDocId(filename, docIds) ==
    LET hits == { i \in 1..Len(documentsStore) :
                    /\ \E k \in 1..Len(docIds) : docIds[k] = documentsStore[i].id
                    /\ documentsStore[i].filename = filename }
    IN IF hits = {} THEN Null
       ELSE documentsStore[CHOOSE i \in hits : \A j \in hits : i <= j].id

\* Faulty variant: the key leaves the page number out.
SourceKeyFilenameOnly(filename, pageNum) == filename

\* `${filename}-${pageNum}`
SourceKey(filename, pageNum) == filename \o <<DASH>> \o NumberToString(pageNum)

RECURSIVE CollectSources(_, _, _, _)
CollectSources(matches, docIds, sources, seenSources) ==
    IF matches = <<>> THEN sources
    ELSE LET match == Head(matches)
             filename == Trim(match.name)
             pageNum == ParseInt(match.page)
             docId == FindDocId(filename, docIds)
             sourceKey == SourceKey(filename, pageNum)
         IN IF sourceKey \notin seenSources
            THEN CollectSources(Tail(matches), docIds,
                                Append(sources, [document_id |-> docId,
                                                 filename |-> filename,
                                                 page_number |-> pageNum]),
                                seenSources \cup {sourceKey})
            ELSE CollectSources(Tail(matches), docIds, sources, seenSources)

\* responseText.replace(sourcePattern, ''): one pass, every match cut out.
RECURSIVE RemoveMatches(_, _, _)
RemoveMatches(t, matches, from) ==
    IF matches = <<>> THEN SubSeq(t, from, Len(t))
    ELSE SubSeq(t, from, Head(matches).start - 1)
         \o RemoveMatches(t, Tail(matches), Head(matches).end + 1)

CleanAnswer(responseText) ==
    Trim(RemoveMatches(responseText, Matches(responseText, 1), 1))

parseGeminiResponse(responseText, docIds) ==
    [answer |-> CleanAnswer(responseText),
     sources |-> CollectSources(Matches(responseText, 1), docIds, <<>>, {}),
     confidence |-> "0.85"]

(***************************************************************************)
(* POST /ask, up to the await of the external call.  storeRead: whether    *)
(* the handler has read documentsStore; call: whether it calls the         *)
(* external service.                                                       *)
(***************************************************************************)
StoreKeyList == [i \in 1..Len(documentsStore) |-> documentsStore[i].id]

AskResult(status, detail, docIds, storeRead, context, call) ==
    [status |-> status, detail |-> detail, docIds |-> docIds,
     storeRead |-> storeRead, context |-> context, call |-> call]

\* Faulty variant: only the first identifier is validated.
FirstUnknownHeadOnly(docIds) ==
    IF docIds # <<>> /\ ~StoreHas(docIds[1]) THEN 1 ELSE 0

\* for (const docId of docIds) if (!documentsStore.has(docId)) return 404
FirstUnknown(docIds) ==
    LET bad == { i \in 1..Len(docIds) : ~StoreHas(docIds[i]) }
    IN IF bad = {} THEN 0 ELSE CHOOSE i \in bad : \A j \in bad : i <= j

\* Faulty variant: the question is checked after the identifiers.
AskBeforeCallQuestionLast(question, document_ids) ==
    LET docIds == IF document_ids.given THEN document_ids.ids ELSE StoreKeyList
        read == ~document_ids.given
    IN IF Len(docIds) = 0
       THEN AskResult(400, "No documents available", docIds, read, <<>>, FALSE)
       ELSE IF FirstUnknown(docIds) # 0
       THEN AskResult(404, "Document not found", docIds, TRUE, <<>>, FALSE)
       ELSE IF question = <<>>
       THEN AskResult(400, "Question is required", docIds, TRUE, <<>>, FALSE)
       ELSE LET context == createContextFromDocuments(docIds)
            IN IF context = <<>>
               THEN AskResult(400, "No content found in selected documents",
                              docIds, TRUE, context, FALSE)
               ELSE AskResult(0, "", docIds, TRUE, context, TRUE)

AskBeforeCall(question, document_ids) ==
    IF question = <<>>
    THEN AskResult(400, "Question is required", <<>>, FALSE, <<>>, FALSE)
    ELSE LET docIds == IF document_ids.given THEN document_ids.ids ELSE StoreKeyList
             read == ~document_ids.given
         IN IF Len(docIds) = 0
            THEN AskResult(400, "No documents available", docIds, read, <<>>, FALSE)
            ELSE IF FirstUnknown(docIds) # 0
            THEN AskResult(404, "Document not found", docIds, TRUE, <<>>, FALSE)
            ELSE LET context == createContextFromDocuments(docIds)
                 IN IF context = <<>>
                    THEN AskResult(400, "No content found in selected documents",
                                   docIds, TRUE, context, FALSE)
                    ELSE AskResult(0, "", docIds, TRUE, context, TRUE)

Ask(question, document_ids) ==
    LET r == AskBeforeCall(question, document_ids)
        req == [question |-> question, document_ids |-> document_ids]
    IN /\ r.call => BagCardinality(inflight) < MaxInflight
       /\ inflight' = IF r.call
                      THEN inflight (+) SetToBag({[docIds |-> r.docIds]})
                      ELSE inflight
       /\ last' = Response("ask", r.status, req, r)
       /\ UNCHANGED <<documentsStore, documentTexts, gone>>

(***************************************************************************)
(* POST /ask, from the return of the external call                         *)
(***************************************************************************)
AskReturn(request, reply) ==
    /\ BagIn(request, inflight)
    /\ inflight' = inflight (-) SetToBag({request})
    /\ last' = IF reply.ok
               THEN Response("answer", 200,
                             [docIds |-> request.docIds, text |-> reply.text],
                             parseGeminiResponse(reply.text, request.docIds))
               ELSE Response("answer", 500,
                             [docIds |-> request.docIds, text |-> reply.text],
                             NoBody)
    /\ UNCHANGED <<documentsStore, documentTexts, gone>>

(***************************************************************************)
(* POST /translate.  The handler reads and writes no map; its one await is *)
(* on the external service, whose reply or failure decides the response.   *)
(***************************************************************************)
\* Request bodies: no string, the empty string, a text.
TranslateBodies ==
    { [string |-> FALSE, text |-> <<>>],
      [string |-> TRUE, text |-> <<>>],
      [string |-> TRUE, text |-> <<"x">>] }

\* What the external service does with a translation prompt.
Translations == { [ok |-> FALSE, text |-> <<>>], [ok |-> TRUE, text |-> <<"y">>] }

Translate(text, reply) ==
    /\ last' = IF ~text.string \/ text.text = <<>>
                   THEN Response("translate", 400, text, NoBody)
               ELSE IF reply.ok
                   THEN Response("translate", 200, text,
                                 [original |-> text.text, translated |-> reply.text])
               ELSE Response("translate", 500, text, NoBody)
    /\ UNCHANGED <<documentsStore, documentTexts, inflight, gone>>

Next ==
    \/ \E file \in Files : Upload(file) /\ Observe /\ UNCHANGED clientVars
    \/ ListDocuments /\ Observe /\ UNCHANGED clientVars
    \/ \E id \in Ids : DeleteDocument(id) /\ Observe /\ UNCHANGED clientVars
    \/ \E id \in Ids, n \in PageParams :
          GetPage(id, n) /\ Observe /\ UNCHANGED clientVars
    \/ \E q \in Questions, ids \in DocumentIds :
          Ask(q, ids) /\ Observe /\ UNCHANGED clientVars
    \/ \E request \in BagToSet(inflight), reply \in Replies :
          AskReturn(request, reply) /\ Observe /\ UNCHANGED clientVars
    \/ \E text \in TranslateBodies, reply \in Translations :
          Translate(text, reply) /\ Observe /\ UNCHANGED clientVars

Spec == Init /\ [][Next]_vars

(***************************************************************************)
(* The answer parser alone: two documents are stored, one question about   *)
(* both is at the external service, and any reply comes back.              *)
(***************************************************************************)
ParseInit ==
    \E f2 \in Filenames :
        /\ documentsStore = << [id |-> "d1", filename |-> <<"a">>, pages |-> 1],
                               [id |-> "d2", filename |-> f2, pages |-> 1] >>
        /\ documentTexts = [id \in Ids |-> [n \in {1} |-> <<"a">>]]
        /\ inflight = SetToBag({[docIds |-> <<"d1", "d2">>]})
        /\ gone = {}
        /\ last = Response("ask", 0,
                           [question |-> <<"q">>,
                            document_ids |-> [given |-> TRUE, ids |-> <<"d1", "d2">>]],
                           AskBeforeCall(<<"q">>, [given |-> TRUE, ids |-> <<"d1", "d2">>]))
        /\ listed = NotListed
        /\ Mounted

ParseNext ==
    \E request \in BagToSet(inflight), reply \in ParseReplies :
        AskReturn(request, reply) /\ Observe /\ UNCHANGED clientVars

ParseSpec == ParseInit /\ [][ParseNext]_vars

(***************************************************************************)
(* The client (App).  A handler runs up to its await in one step and its   *)
(* continuation runs in another, when the request completes; a handler     *)
(* invoked by an event is the one of the latest render, so it reads the    *)
(* current state, and its continuation keeps what it read then.  The       *)
(* service is any service: a request completes with an OK response or not. *)
(* documents is the length of the list, questionInput says whether the     *)
(* hook question holds a non-blank text, selectedPage and pageText whether *)
(* they are set; selectedDocs and translatedText guard nothing and are     *)
(* left out.                                                               *)
(***************************************************************************)
\* Asks one session sends.
MaxAsks == 3

\* Requests the client has in flight at once.
MaxRequests == 3

\* PDF files one selection of the file input holds.
MaxFiles == 2

\* Lengths of the list a GET /documents returns.
Listings == 0..1

Send(request) == requests (+) SetToBag({request})

Complete(request) == requests (-) SetToBag({request})

CanSend(k) == BagCardinality(requests) + k <= MaxRequests

Exchange(n, sources) == [question |-> n, sources |-> sources]

\* The Refresh button.
fetchDocuments ==
    /\ CanSend(1)
    /\ requests' = Send(Request("documents", 0, <<>>))
    /\ UNCHANGED <<documents, chatHistory, questionInput, loading, selectedPage,
                   pageText, activeTab, asked, answered>>

fetchDocumentsDone(request, ok, n) ==
    /\ request.kind = "documents"
    /\ BagIn(request, requests)
    /\ requests' = Complete(request)
    /\ documents' = IF ok THEN n ELSE documents
    /\ UNCHANGED <<chatHistory, questionInput, loading, selectedPage, pageText,
                   activeTab, asked, answered>>

\* The upload button is disabled while loading; every selected PDF is sent.
handleFileSelect(files) ==
    /\ ~loading
    /\ CanSend(files)
    /\ loading' = TRUE
    /\ requests' = requests (+) [r \in {Request("upload", 0, <<>>)} |-> files]
    /\ UNCHANGED <<documents, chatHistory, questionInput, selectedPage, pageText,
                   activeTab, asked, answered>>

uploadDocumentDone(request, ok) ==
    /\ request.kind = "upload"
    /\ BagIn(request, requests)
    /\ requests' = IF ok THEN Complete(request) (+) SetToBag({Request("documents", 0, <<>>)})
                         ELSE Complete(request)
    /\ loading' = FALSE
    /\ UNCHANGED <<documents, chatHistory, questionInput, selectedPage, pageText,
                   activeTab, asked, answered>>

\* The delete button of a document card.
deleteDocument ==
    /\ documents > 0
    /\ CanSend(1)
    /\ requests' = Send(Request("delete", 0, <<>>))
    /\ UNCHANGED <<documents, chatHistory, questionInput, loading, selectedPage,
                   pageText, activeTab, asked, answered>>

deleteDocumentDone(request, ok) ==
    /\ request.kind = "delete"
    /\ BagIn(request, requests)
    /\ requests' = IF ok THEN Complete(request) (+) SetToBag({Request("documents", 0, <<>>)})
                         ELSE Complete(request)
    /\ UNCHANGED <<documents, chatHistory, questionInput, loading, selectedPage,
                   pageText, activeTab, asked, answered>>

\* The chat input is drawn on the chat tab and disabled while loading or
\* while the list is empty.
InputEnabled == activeTab = "chat" /\ ~loading /\ documents > 0

setQuestion(text) ==
    /\ InputEnabled
    /\ questionInput' = text
    /\ UNCHANGED <<documents, chatHistory, loading, selectedPage, pageText,
                   activeTab, requests, asked, answered>>

\* The send button, or Enter in the input.
askQuestion ==
    /\ InputEnabled
    /\ questionInput
    /\ asked < MaxAsks
    /\ CanSend(1)
    /\ questionInput' = FALSE
    /\ loading' = TRUE
    /\ asked' = asked + 1
    /\ requests' = Send(Request("ask", asked + 1, chatHistory))
    /\ UNCHANGED <<documents, chatHistory, selectedPage, pageText, activeTab,
                   answered>>

\* The continuation of askQuestion: setChatHistory([...chatHistory, exchange])
\* with the chatHistory of the closure.
askQuestionDone(request, ok, sources) ==
    /\ request.kind = "ask"
    /\ BagIn(request, requests)
    /\ requests' = Complete(request)
    /\ chatHistory' = IF ok THEN Append(request.chatHistory,
                                        Exchange(request.question, sources))
                            ELSE chatHistory
    /\ answered' = IF ok THEN answered + 1 ELSE answered
    /\ loading' = FALSE
    /\ UNCHANGED <<documents, questionInput, selectedPage, pageText, activeTab, asked>>

\* The View button of a source of an exchange; it is not disabled by loading.
viewPage ==
    /\ activeTab = "chat"
    /\ \E i \in 1..Len(chatHistory) : chatHistory[i].sources
    /\ CanSend(1)
    /\ loading' = TRUE
    /\ selectedPage' = TRUE
    /\ pageText' = FALSE
    /\ activeTab' = "viewer"
    /\ requests' = Send(Request("page", 0, <<>>))
    /\ UNCHANGED <<documents, chatHistory, questionInput, asked, answered>>

viewPageDone(request, ok) ==
    /\ request.kind = "page"
    /\ BagIn(request, requests)
    /\ requests' = Complete(request)
    /\ pageText' = IF ok THEN TRUE ELSE pageText
    /\ loading' = FALSE
    /\ UNCHANGED <<documents, chatHistory, questionInput, selectedPage, activeTab,
                   asked, answered>>

\* The translate button is drawn under the page text and disabled while
\* loading.
translatePage ==
    /\ activeTab = "viewer"
    /\ selectedPage
    /\ pageText
    /\ ~loading
    /\ CanSend(1)
    /\ loading' = TRUE
    /\ requests' = Send(Request("translate", 0, <<>>))
    /\ UNCHANGED <<documents, chatHistory, questionInput, selectedPage, pageText,
                   activeTab, asked, answered>>

translatePageDone(request) ==
    /\ request.kind = "translate"
    /\ BagIn(request, requests)
    /\ requests' = Complete(request)
    /\ loading' = FALSE
    /\ UNCHANGED <<documents, chatHistory, questionInput, selectedPage, pageText,
                   activeTab, asked, answered>>

\* The Back button of the viewer.
Back ==
    /\ activeTab = "viewer"
    /\ selectedPage
    /\ selectedPage' = FALSE
    /\ pageText' = FALSE
    /\ UNCHANGED <<documents, chatHistory, questionInput, loading, activeTab,
                   requests, asked, answered>>

\* The two tab buttons.
setActiveTab(tab) ==
    /\ activeTab' = tab
    /\ UNCHANGED <<documents, chatHistory, questionInput, loading, selectedPage,
                   pageText, requests, asked, answered>>

ClientNext ==
    \/ fetchDocuments /\ UNCHANGED serverVars
    \/ \E request \in BagToSet(requests), ok \in BOOLEAN, n \in Listings :
          fetchDocumentsDone(request, ok, n) /\ UNCHANGED serverVars
    \/ \E files \in 1..MaxFiles : handleFileSelect(files) /\ UNCHANGED serverVars
    \/ \E request \in BagToSet(requests), ok \in BOOLEAN :
          uploadDocumentDone(request, ok) /\ UNCHANGED serverVars
    \/ deleteDocument /\ UNCHANGED serverVars
    \/ \E request \in BagToSet(requests), ok \in BOOLEAN :
          deleteDocumentDone(request, ok) /\ UNCHANGED serverVars
    \/ \E text \in BOOLEAN : setQuestion(text) /\ UNCHANGED serverVars
    \/ askQuestion /\ UNCHANGED serverVars
    \/ \E request \in BagToSet(requests), ok \in BOOLEAN, sources \in BOOLEAN :
          askQuestionDone(request, ok, sources) /\ UNCHANGED serverVars
    \/ viewPage /\ UNCHANGED serverVars
    \/ \E request \in BagToSet(requests), ok \in BOOLEAN :
          viewPageDone(request, ok) /\ UNCHANGED serverVars
    \/ translatePage /\ UNCHANGED serverVars
    \/ \E request \in BagToSet(requests) :
          translatePageDone(request) /\ UNCHANGED serverVars
    \/ Back /\ UNCHANGED serverVars
    \/ \E tab \in {"chat", "viewer"} : setActiveTab(tab) /\ UNCHANGED serverVars

ClientSpec == Init /\ [][ClientNext]_vars

(***************************************************************************)
(* Properties                                                              *)
(***************************************************************************)
Elems(seq) == { seq[i] : i \in 1..Len(seq) }

\* C1: in every reachable state the keys of the metadata map are the keys of
\* the page-text map.
C1_SameKeys == StoreKeys = TextsKeys

\* A delete has succeeded while another document stays stored.
C1_Witness ==
    /\ last.op = "delete" /\ last.status = 200
    /\ Len(documentsStore) = 1

C3_AskAlways404 ==
    [][ \A d \in gone :
          /\ last'.op = "list" =>
               \A i \in 1..Len(last'.body) : last'.body[i].id # d
          /\ (last'.op = "page" /\ last'.req.documentId = d) => last'.status = 404
          /\ (last'.op = "delete" /\ last'.req = d) => last'.status = 404
          /\ (last'.op = "ask" /\ d \in Elems(last'.req.document_ids.ids)) =>
               last'.status = 404 ]_vars

\* C3, amended: as above, for an ask that carries a question (an ask without
\* one is answered 400 before the identifiers are looked at).
C3_DeletedIsUnknown ==
    [][ \A d \in gone :
          /\ last'.op = "list" =>
               \A i \in 1..Len(last'.body) : last'.body[i].id # d
          /\ (last'.op = "page" /\ last'.req.documentId = d) => last'.status = 404
          /\ (last'.op = "delete" /\ last'.req = d) => last'.status = 404
          /\ (last'.op = "ask" /\ last'.req.question # <<>>
                /\ d \in Elems(last'.req.document_ids.ids)) =>
               last'.status = 404 ]_vars

\* An ask with a question names a deleted document beside a stored one.
C3_Witness ==
    /\ last.op = "ask" /\ last.req.question # <<>>
    /\ \E d \in gone : d \in Elems(last.req.document_ids.ids)
    /\ \E k \in StoreKeys : k \in Elems(last.req.document_ids.ids)

\* C4: an ask with a question and a list holding an identifier that is not
\* stored is answered 404 and adds no request to those waiting for the
\* external service; a request is added only when every listed identifier is
\* stored.
C4_UnknownIdNoCall ==
    [][ (last'.op = "ask" /\ last'.req.question # <<>>) =>
          /\ (\E d \in Elems(last'.req.document_ids.ids) : ~StoreHas(d)) =>
               /\ last'.status = 404
               /\ ~last'.body.call
               /\ inflight' = inflight
          /\ inflight' # inflight =>
               \A d \in Elems(last'.body.docIds) : StoreHas(d) ]_vars

\* The unknown identifier comes after a stored one in the list.
C4_Witness ==
    /\ last.op = "ask" /\ last.status = 404
    /\ Len(last.req.document_ids.ids) = 2
    /\ StoreHas(last.req.document_ids.ids[1])
    /\ ~StoreHas(last.req.document_ids.ids[2])

\* C5 as stated: an ask with a question and with document_ids omitted or
\* empty selects every stored document, and is answered 400 only when no
\* document is stored.
C5_EmptyMeansAll ==
    (/\ last.op = "ask" /\ last.req.question # <<>>
     /\ (~last.req.document_ids.given \/ last.req.document_ids.ids = <<>>)) =>
        IF documentsStore = <<>>
        THEN last.status = 400
        ELSE last.status # 400 /\ last.body.docIds = StoreKeyList

\* C8: an ask without a question is answered 400 with no read of the store
\* and no external call, whatever the store and document_ids hold.
C8_QuestionFirst ==
    [][ (last'.op = "ask" /\ last'.req.question = <<>>) =>
          /\ last'.status = 400
          /\ ~last'.body.storeRead
          /\ ~last'.body.call
          /\ inflight' = inflight ]_vars

\* The ask without a question names an identifier that is not stored, while
\* a document is stored.
C8_Witness ==
    /\ last.op = "ask" /\ last.req.question = <<>>
    /\ documentsStore # <<>>
    /\ \E d \in Elems(last.req.document_ids.ids) : ~StoreHas(d)

\* The (filename, page number) pair a match cites.
CitedPair(match) == <<Trim(match.name), ParseInt(match.page)>>

\* The pairs cited by the markers that the left-to-right scan of the text
\* finds, in the order of the markers.
CitedPairs(text) ==
    LET ms == Matches(text, 1) IN [i \in 1..Len(ms) |-> CitedPair(ms[i])]

FirstIndex(seq, x) == CHOOSE i \in 1..Len(seq) : seq[i] = x /\ \A j \in 1..(i - 1) : seq[j] # x

\* C6: the sources of an answer hold each (filename, page number) pair cited
\* by a marker of the text exactly once, in the order of the pairs' first
\* markers.  The markers of a text are the matches of the pattern's
\* left-to-right scan.
C6_SourcesDeduplicated ==
    (last.op = "answer" /\ last.status = 200) =>
        LET cited == CitedPairs(last.req.text)
            sources == last.body.sources
            pair(i) == <<sources[i].filename, sources[i].page_number>>
        IN /\ \A i, j \in 1..Len(sources) : i # j => pair(i) # pair(j)
           /\ { pair(i) : i \in 1..Len(sources) } = Elems(cited)
           /\ \A i, j \in 1..Len(sources) :
                 i < j => FirstIndex(cited, pair(i)) < FirstIndex(cited, pair(j))

\* Three markers, the same page of the same file cited twice.
C6_Witness ==
    /\ last.op = "answer" /\ last.status = 200
    /\ Len(Matches(last.req.text, 1)) = 3
    /\ Len(last.body.sources) = 2
    /\ last.body.sources[1].filename = last.body.sources[2].filename

\* C7 as stated: no part of a returned answer matches the marker format.
C7_NoMarkerLeft ==
    (last.op = "answer" /\ last.status = 200) =>
        \A i \in 1..Len(last.body.answer) : ~MatchAt(last.body.answer, i).ok

\* The page, document and block of the i-th (list position, page) pair in
\* the order of the list, then ascending page number.
ClaimedBlocks(docIds) ==
    LET pageNums == UNION { DOMAIN documentTexts[d] : d \in TextsKeys }
        slots == { <<k, n>> \in (1..Len(docIds)) \X pageNums :
                     /\ docIds[k] \in TextsKeys
                     /\ n \in DOMAIN documentTexts[docIds[k]] }
        before(a, b) == a[1] < b[1] \/ (a[1] = b[1] /\ a[2] < b[2])
        rank(a) == 1 + Cardinality({ b \in slots : before(b, a) })
        slot(i) == CHOOSE a \in slots : rank(a) = i
    IN [i \in 1..Cardinality(slots) |->
          <<LDOC>> \o StoreGet(docIds[slot(i)[1]]).filename \o <<PAGE>>
             \o NumberToString(slot(i)[2]) \o <<RBR, NL>>
             \o documentTexts[docIds[slot(i)[1]]][slot(i)[2]] \o <<NL>>]

\* The blocks with two line feeds between each two neighbours.
RECURSIVE ClaimedContext(_)
ClaimedContext(blocks) ==
    IF blocks = <<>> THEN <<>>
    ELSE IF Len(blocks) = 1 THEN blocks[1]
    ELSE ClaimedContext(SubSeq(blocks, 1, Len(blocks) - 1))
         \o <<NL, NL>> \o blocks[Len(blocks)]

\* C9: for every list of identifiers the context is one block
\* "[Document: <filename>, Page: <page>]", line feed, text, line feed for each
\* stored page of each listed document, in list order and ascending page
\* number within a document, the blocks separated by a blank line; the
\* context an ask sends is the context of its list.
C9_ContextBlocks ==
    /\ \A ids \in IdLists :
          createContextFromDocuments(ids) = ClaimedContext(ClaimedBlocks(ids))
    /\ (last.op = "ask" /\ last.body.call) =>
          last.body.context = ClaimedContext(ClaimedBlocks(last.body.docIds))

\* An ask sends the context of two documents, the first with pages 1 and 2.
C9_Witness ==
    /\ last.op = "ask" /\ last.body.call
    /\ Len(last.body.docIds) = 2
    /\ last.body.docIds[1] # last.body.docIds[2]
    /\ DOMAIN documentTexts[last.body.docIds[1]] = {1, 2}
    /\ Len(ContextParts(last.body.docIds)) = 3

\* C10 as stated: a page read is answered 200 with the stored text exactly
\* when the document is stored and the page number is a key of its pages,
\* and 404 otherwise.
C10_StoredPageIsReadable ==
    last.op = "page" =>
        LET id == last.req.documentId
            n == ParseInt(last.req.pageNumber)
        IN IF StoreHas(id) /\ n \in DOMAIN documentTexts[id]
           THEN last.status = 200 /\ last.body.text = documentTexts[id][n]
           ELSE last.status = 404

\* t is s with further elements after it.
IsPrefix(s, t) == Len(s) <= Len(t) /\ \A i \in 1..Len(s) : s[i] = t[i]

\* C11: the chat history is append-only: no step of the client removes or
\* replaces an exchange, and a step in which an /ask completes with an OK
\* response adds exactly one exchange, so that the history always has as many
\* exchanges as asks have completed with an OK response.
C11_AppendOnly ==
    [][ /\ IsPrefix(chatHistory, chatHistory')
        /\ Len(chatHistory') = Len(chatHistory) + (answered' - answered)
        /\ Len(chatHistory') = answered' ]_vars

\* C12: a step that answers GET /documents, a page read, an /ask (either
\* half of it) or a /translate leaves both maps as they were; and a
\* GET /documents answered while no upload and no delete has succeeded since
\* an earlier GET /documents returns the same set of records as that one,
\* whatever reads were answered in between.
C12_ReadsKeepMaps ==
    [][ /\ last'.op \in Reads =>
              /\ documentsStore' = documentsStore
              /\ documentTexts' = documentTexts
        /\ last'.op = "list" /\ listed.calls > 0 =>
              Elems(last'.body) = Elems(listed.documents) ]_vars

\* C12: a non-empty list has been returned a second time with no upload and
\* no delete in between, after another read was answered in between, while
\* an /ask is waiting for the external service.
C12_Witness ==
    /\ last.op = "list"
    /\ listed.calls = 3
    /\ listed.documents # <<>>
    /\ inflight # EmptyBag

\* The positions in the store of the documents that a citation of filename
\* in an answer to a question about docIds can stand for.
Citable(filename, docIds) ==
    { i \in 1..Len(documentsStore) :
        /\ documentsStore[i].id \in Elems(docIds)
        /\ documentsStore[i].filename = filename }

\* C13: when the external call of an /ask returns a reply, the response is a
\* 200, and each of its sources has as document_id the identifier of the
\* first document, in the order of the store at that moment, that is among
\* the selected ones and has the cited filename, and null exactly when the
\* store holds no such document; so no source names a document that was
\* deleted while the call was in flight.
C13_FirstMatchAtReturn ==
    [][ \A request \in BagToSet(inflight), reply \in Replies :
          reply.ok /\ AskReturn(request, reply) =>
             /\ last'.op = "answer"
             /\ last'.status = 200
             /\ \A k \in 1..Len(last'.body.sources) :
                   LET source == last'.body.sources[k]
                       citable == Citable(source.filename, request.docIds)
                   IN /\ source.document_id = Null <=> citable = {}
                      /\ source.document_id # Null =>
                            /\ \E i \in citable :
                                  /\ documentsStore[i].id = source.document_id
                                  /\ \A j \in citable : i <= j
                            /\ source.document_id \notin gone ]_vars

\* C13: an answer has come back with a 200 after a selected document was
\* deleted while the external call was in flight; one of its sources has
\* no document and another is resolved to a document still stored.
C13_Witness ==
    /\ last.op = "answer"
    /\ last.status = 200
    /\ \E d \in Elems(last.req.docIds) : d \in gone
    /\ \E k \in 1..Len(last.body.sources) : last.body.sources[k].document_id = Null
    /\ \E k \in 1..Len(last.body.sources) :
          /\ last.body.sources[k].document_id # Null
          /\ last.body.sources[k].document_id \in Elems(last.req.docIds)

====
